---- MODULE Spec2Model ----
(***************************************************************************)
(* A model of billing_analysis.py: the AVOXIBillingAnalyzer object, its    *)
(* five report/render methods and the run_full_analysis pipeline.          *)
(*                                                                         *)
(* Units.  Currency amounts (Revenue, Cost, Total Cost, Value) are natural *)
(* numbers.  A GM% fraction f is held as the integer 100*f, so the source  *)
(* literal 0.35 is Threshold = 35.  A percentage share is held in units of *)
(* 1/ShareScale percent, the quotient being cut at that resolution.        *)
(***************************************************************************)
EXTENDS Integers, Sequences, FiniteSets, TLC

VARIABLES
    data,        \* self.data: table name -> sequence of rows
    loaded,      \* self.data as load_data left it (never written again)
    outputDir,   \* what the output_dir path is: "absent", "noparent",
                 \* "file" or "dir"
    outputDir0,  \* outputDir as it was before any call
    files,       \* the names of the files inside the output directory
    files0,      \* files as they were before any call
    pc,          \* "idle", or the position of run_full_analysis
    started,     \* the steps run_full_analysis has started, in order, each
                 \* with how it ended
    printed,     \* the closing blocks run_full_analysis has printed
    last,        \* the most recent method call and its outcome
    vizCalls     \* create_visualizations calls so far (up to MaxVizCalls)

vars == <<data, loaded, outputDir, outputDir0, files, files0, pc, started, printed,
          last, vizCalls>>

----------------------------------------------------------------------------
(* Bounds of the model. *)

MaxClients == 3
MaxRevenue == 2
MaxVendors == 3
MaxCost == 2
MaxN == 4
MinNeg == 2
MarginSpread == 1
ShareScale == 1000
MaxVizCalls == 2

(* Constants of the program. *)

Threshold == 35
DefaultN == 10

Min(a, b) == IF a <= b THEN a ELSE b
Max(a, b) == IF a >= b THEN a ELSE b

RECURSIVE SumSeq(_)
SumSeq(s) == IF s = <<>> THEN 0 ELSE Head(s) + SumSeq(Tail(s))

Column(t, key) == [i \in 1..Len(t) |-> t[i][key]]

----------------------------------------------------------------------------
(* The tables and their names. *)

TableNames ==
    {"Summary", "Client Breakdown", "Vendor Costs", "Low Margin Clients",
     "Low Margin Countries", "Country Breakdown", "Carrier Breakdown"}

ReportMetrics ==
    <<"Total Revenue", "Total Cost", "Gross Margin % (Current)",
      "Total Revenue (After Increase)", "Gross Margin % (After Increase)">>

PngNames ==
    <<"01_revenue_margin_analysis.png", "02_country_performance.png",
      "03_vendor_costs.png", "04_carrier_analysis.png">>

RED == "#FF6B6B"
TEAL == "#4ECDC4"

DefaultSummary ==
    << [Metric |-> "Total Revenue", Value |-> 1000],
       [Metric |-> "Total Cost", Value |-> 600],
       [Metric |-> "Gross Margin % (Current)", Value |-> 40],
       [Metric |-> "Total Revenue (After Increase)", Value |-> 1100],
       [Metric |-> "Gross Margin % (After Increase)", Value |-> 46] >>

DefaultClients ==
    << [Customer |-> "Client 1", Revenue |-> 1, GM |-> 30, Calls |-> 7],
       [Customer |-> "Client 2", Revenue |-> 3, GM |-> 35, Calls |-> 9],
       [Customer |-> "Client 3", Revenue |-> 2, GM |-> 40, Calls |-> 4] >>

DefaultVendors ==
    << [Vendor |-> "Vendor 1", TotalCost |-> 1],
       [Vendor |-> "Vendor 2", TotalCost |-> 2] >>

DefaultLowClients ==
    << [Customer |-> "Client 2", GM |-> 35, Revenue |-> 3],
       [Customer |-> "Client 1", GM |-> 30, Revenue |-> 1] >>

DefaultLowCountries ==
    << [Country |-> "Chile", GM |-> 34, Revenue |-> 2],
       [Country |-> "Australia", GM |-> 36, Revenue |-> 1] >>

DefaultCountries ==
    << [Country |-> "Chile", Revenue |-> 2, GM |-> 34],
       [Country |-> "United States", Revenue |-> 3, GM |-> 36] >>

DefaultCarriers ==
    << [NumberType |-> "Mobile", Revenue |-> 3, Cost |-> 2, GM |-> 33],
       [NumberType |-> "Landline", Revenue |-> 2, Cost |-> 1, GM |-> 50] >>

DefaultData ==
    [t \in TableNames |->
        CASE t = "Summary" -> DefaultSummary
          [] t = "Client Breakdown" -> DefaultClients
          [] t = "Vendor Costs" -> DefaultVendors
          [] t = "Low Margin Clients" -> DefaultLowClients
          [] t = "Low Margin Countries" -> DefaultLowCountries
          [] t = "Country Breakdown" -> DefaultCountries
          [] OTHER -> DefaultCarriers]

WithTable(name, t) == [DefaultData EXCEPT ![name] = t]

----------------------------------------------------------------------------
(* pandas: DataFrame.sort_values(key, ascending=False) and DataFrame.head. *)

IsPermutation(p, k) ==
    /\ p \in [1..k -> 1..k]
    /\ \A i, j \in 1..k : p[i] = p[j] => i = j

Reorder(t, p) == [i \in 1..Len(t) |-> t[p[i]]]

NonDecreasing(s, key) ==
    \A i \in 1..Len(s) : \A j \in i..Len(s) : s[i][key] <= s[j][key]

NonIncreasing(s, key) ==
    \A i \in 1..Len(s) : \A j \in i..Len(s) : s[i][key] >= s[j][key]

(* sort_values is called without kind=, so pandas sorts with its default   *)
(* 'quicksort', which is not a stable sort: every arrangement of the rows  *)
(* in non-increasing key order is a result the library may give.           *)
SortOutcomes(t, key) ==
    { Reorder(t, p) : p \in { q \in [1..Len(t) -> 1..Len(t)] :
                                /\ IsPermutation(q, Len(t))
                                /\ NonIncreasing(Reorder(t, q), key) } }

HeadRowsOffByOne(s, n) ==
    SubSeq(s, 1, IF n >= 0 THEN Min(n + 1, Len(s)) ELSE Max(0, Len(s) + n))

(* head(n): the first n rows, and for a negative n all but the last -n.    *)
HeadRows(s, n) ==
    SubSeq(s, 1, IF n >= 0 THEN Min(n, Len(s)) ELSE Max(0, Len(s) + n))

----------------------------------------------------------------------------
(* generate_summary_report *)

(* summary.loc[summary['Metric'] == metric, 'Value'].values *)
MetricValues(summary, metric) ==
    Column(SelectSeq(summary, LAMBDA row : row.Metric = metric), "Value")

MetricFound(summary, metric) == Len(MetricValues(summary, metric)) > 0

LastValue(summary, metric) ==
    MetricValues(summary, metric)[Len(MetricValues(summary, metric))]

(* .values[0] *)
FirstValue(summary, metric) == MetricValues(summary, metric)[1]

SummaryReport(d) ==
    IF "Summary" \notin DOMAIN d
    THEN [status |-> "KeyError", ret |-> <<>>]
    ELSE IF \E i \in 1..Len(ReportMetrics) :
                ~MetricFound(d["Summary"], ReportMetrics[i])
    THEN [status |-> "IndexError", ret |-> <<>>]
    ELSE [status |-> "ok",
          ret |-> << FirstValue(d["Summary"], "Total Revenue"),
                     FirstValue(d["Summary"], "Gross Margin % (Current)"),
                     FirstValue(d["Summary"],
                                "Gross Margin % (After Increase)") >>]

----------------------------------------------------------------------------
(* analyze_top_clients *)

TopClients(d, n, sorted) ==
    IF "Client Breakdown" \notin DOMAIN d
    THEN [status |-> "KeyError", n |-> n, ret |-> <<>>]
    ELSE [status |-> "ok", n |-> n, ret |-> HeadRows(sorted, n)]

ClientSorts(d) ==
    IF "Client Breakdown" \notin DOMAIN d
    THEN {<<>>}
    ELSE SortOutcomes(d["Client Breakdown"], "Revenue")

DataSortedInPlace(d, sorted) ==
    IF "Client Breakdown" \in DOMAIN d
    THEN [d EXCEPT !["Client Breakdown"] = sorted]
    ELSE d

(* clients = self.data[...].copy(); clients = clients.sort_values(...):    *)
(* the sorted frame is bound to a local name, self.data keeps its table.   *)
DataAfterSort(d, sorted) == d

----------------------------------------------------------------------------
(* analyze_vendor_efficiency *)

ShareWithoutTimes100(cost, total) ==
    IF total = 0
    THEN [number |-> FALSE, pct |-> 0]
    ELSE [number |-> TRUE, pct |-> (cost * ShareScale) \div total]

(* (row['Total Cost'] / total_cost) * 100.  A zero total makes the numpy   *)
(* quotient nan (0/0) or inf (x/0): neither is a number.                   *)
Share(cost, total) ==
    IF total = 0
    THEN [number |-> FALSE, pct |-> 0]
    ELSE [number |-> TRUE, pct |-> (cost * 100 * ShareScale) \div total]

VendorEfficiency(d) ==
    IF "Vendor Costs" \notin DOMAIN d
    THEN [status |-> "KeyError", shares |-> <<>>, ret |-> <<>>]
    ELSE LET vendors == d["Vendor Costs"]
             total_cost == SumSeq(Column(vendors, "TotalCost"))
         IN [status |-> "ok",
             shares |-> [i \in 1..Len(vendors) |->
                            Share(vendors[i].TotalCost, total_cost)],
             ret |-> vendors]

----------------------------------------------------------------------------
(* identify_optimization_opportunities *)

IsLowMarginInclusive(gm) == gm <= Threshold

(* if row['GM%'] < 0.35 *)
IsLowMargin(gm) == gm < Threshold

LowMarginLines(t) == SelectSeq(t, LAMBDA row : IsLowMargin(row.GM))

Optimization(d) ==
    IF "Low Margin Clients" \notin DOMAIN d \/ "Low Margin Countries" \notin DOMAIN d
    THEN [status |-> "KeyError", clients |-> <<>>, countries |-> <<>>]
    ELSE [status |-> "ok",
          clients |-> LowMarginLines(d["Low Margin Clients"]),
          countries |-> LowMarginLines(d["Low Margin Countries"])]

----------------------------------------------------------------------------
(* create_visualizations *)

(* margin_colors = ['#FF6B6B' if x < 0.35 else '#4ECDC4' ...] *)
CountryColor(gm) == IF gm < Threshold THEN RED ELSE TEAL

(* colors_margin = ['#4ECDC4' if x > 0.35 else '#FF6B6B' ...] *)
CarrierColor(gm) == IF gm > Threshold THEN TEAL ELSE RED

CountryBars(sorted) ==
    [i \in 1..Len(sorted) |->
        [GM |-> sorted[i].GM, color |-> CountryColor(sorted[i].GM)]]

CarrierBars(sorted) ==
    [i \in 1..Len(sorted) |->
        [GM |-> sorted[i].GM, color |-> CarrierColor(sorted[i].GM)]]

SortsOf(d, name, key) ==
    IF name \notin DOMAIN d THEN {<<>>} ELSE SortOutcomes(d[name], key)

(* Axes.pie(values): matplotlib divides the values by their sum; with a    *)
(* zero sum the wedges are not numbers and whether the figure is still     *)
(* drawn and saved depends on the installed matplotlib.                    *)
PieOutcomes(d, name, key) ==
    IF name \in DOMAIN d /\ SumSeq(Column(d[name], key)) = 0
    THEN {TRUE, FALSE}
    ELSE {TRUE}

(* Path(output_dir).mkdir(exist_ok=True) *)
MkdirError(dir) ==
    CASE dir = "file" -> "FileExistsError"
      [] dir = "noparent" -> "FileNotFoundError"
      [] OTHER -> "ok"

(* What stops figure k (1..4) from being drawn and saved; "ok" if nothing. *)
FigureError(d, k, pie2, pie3) ==
    CASE k = 1 ->
            IF "Summary" \notin DOMAIN d THEN "KeyError"
            ELSE IF ~MetricFound(d["Summary"], "Gross Margin % (Current)")
                    \/ ~MetricFound(d["Summary"], "Gross Margin % (After Increase)")
            THEN "IndexError"
            ELSE IF "Client Breakdown" \notin DOMAIN d THEN "KeyError"
            ELSE "ok"
      [] k = 2 ->
            IF "Country Breakdown" \notin DOMAIN d THEN "KeyError"
            ELSE IF ~pie2 THEN "RenderError" ELSE "ok"
      [] k = 3 ->
            IF "Vendor Costs" \notin DOMAIN d THEN "KeyError"
            ELSE IF ~pie3 THEN "RenderError" ELSE "ok"
      [] OTHER ->
            IF "Carrier Breakdown" \notin DOMAIN d THEN "KeyError" ELSE "ok"

SavedCountAllOrNothing(d, dir, pie2, pie3) ==
    IF MkdirError(dir) = "ok"
       /\ \A k \in 1..Len(PngNames) : FigureError(d, k, pie2, pie3) = "ok"
    THEN Len(PngNames)
    ELSE 0

(* The figures are drawn and saved one after the other; the first error    *)
(* ends the call.  SavedCount is the number of figures saved before it.    *)
SavedCount(d, dir, pie2, pie3) ==
    IF MkdirError(dir) # "ok" THEN 0
    ELSE LET bad == {k \in 1..Len(PngNames) : FigureError(d, k, pie2, pie3) # "ok"}
         IN IF bad = {} THEN Len(PngNames)
            ELSE (CHOOSE k \in bad : \A j \in bad : k <= j) - 1

SavedFilesButLast(count) == {PngNames[k] : k \in 1..(count - 1)}

SavedFiles(count) == {PngNames[k] : k \in 1..count}

(* The exception the call ends with; "ok" when it returns. *)
CallError(d, dir, pie2, pie3) ==
    IF MkdirError(dir) # "ok" THEN MkdirError(dir)
    ELSE LET bad == {k \in 1..Len(PngNames) : FigureError(d, k, pie2, pie3) # "ok"}
         IN IF bad = {} THEN "ok"
            ELSE FigureError(d, CHOOSE k \in bad : \A j \in bad : k <= j, pie2, pie3)

Visualize(d, dir, pie2, pie3, countries, carriers) ==
    LET count == SavedCount(d, dir, pie2, pie3)
    IN [status |-> CallError(d, dir, pie2, pie3),
        written |-> SavedFiles(count),
        countryBars |-> IF count >= 2 THEN CountryBars(countries) ELSE <<>>,
        carrierBars |-> IF count >= 4 THEN CarrierBars(carriers) ELSE <<>>]

----------------------------------------------------------------------------
(* run_full_analysis: the steps in the order of its calls. *)

Pipeline == <<"summary", "clients", "vendors", "optim", "viz", "recs">>

Position(step) == CHOOSE i \in 1..Len(Pipeline) : Pipeline[i] = step

AfterStepContinue(step, ok) ==
    IF Position(step) = Len(Pipeline) THEN "done"
    ELSE Pipeline[Position(step) + 1]

(* A call that raises ends run_full_analysis: nothing catches it. *)
AfterStep(step, ok) ==
    IF ~ok THEN "failed"
    ELSE IF Position(step) = Len(Pipeline) THEN "done"
    ELSE Pipeline[Position(step) + 1]

NextPc(step, ok) == IF pc = "idle" THEN "idle" ELSE AfterStep(step, ok)

----------------------------------------------------------------------------
(* The operations. *)

Called(op, out) == [op |-> op, out |-> out]

(* The counts a caller passes to analyze_top_clients. *)
CallCounts == (0 - MinNeg)..MaxN

NextStarted(step, status) ==
    IF pc = "idle" THEN started
    ELSE Append(started, [step |-> step, status |-> status])

BeginRun ==
    /\ pc = "idle"
    /\ pc' = Pipeline[1]
    /\ UNCHANGED <<data, loaded, outputDir, outputDir0, files, files0, started, printed,
                   last, vizCalls>>

GenerateSummaryReport ==
    /\ pc \in {"idle", "summary"}
    /\ last' = Called("generate_summary_report", SummaryReport(data))
    /\ pc' = NextPc("summary", SummaryReport(data).status = "ok")
    /\ started' = NextStarted("summary", SummaryReport(data).status)
    /\ UNCHANGED <<data, loaded, outputDir, outputDir0, files, files0, printed, vizCalls>>

AnalyzeTopClients ==
    /\ pc \in {"idle", "clients"}
    /\ \E sorted \in ClientSorts(data) :
       \E n \in (IF pc = "idle" THEN CallCounts ELSE {DefaultN}) :
          /\ last' = Called("analyze_top_clients", TopClients(data, n, sorted))
          /\ data' = DataAfterSort(data, sorted)
          /\ pc' = NextPc("clients", TopClients(data, n, sorted).status = "ok")
          /\ started' = NextStarted("clients", TopClients(data, n, sorted).status)
    /\ UNCHANGED <<loaded, outputDir, outputDir0, files, files0, printed, vizCalls>>

AnalyzeVendorEfficiency ==
    /\ pc \in {"idle", "vendors"}
    /\ last' = Called("analyze_vendor_efficiency", VendorEfficiency(data))
    /\ pc' = NextPc("vendors", VendorEfficiency(data).status = "ok")
    /\ started' = NextStarted("vendors", VendorEfficiency(data).status)
    /\ UNCHANGED <<data, loaded, outputDir, outputDir0, files, files0, printed, vizCalls>>

IdentifyOptimizationOpportunities ==
    /\ pc \in {"idle", "optim"}
    /\ last' = Called("identify_optimization_opportunities", Optimization(data))
    /\ pc' = NextPc("optim", Optimization(data).status = "ok")
    /\ started' = NextStarted("optim", Optimization(data).status)
    /\ UNCHANGED <<data, loaded, outputDir, outputDir0, files, files0, printed, vizCalls>>

CreateVisualizations ==
    /\ pc \in {"idle", "viz"}
    /\ \E pie2 \in PieOutcomes(data, "Country Breakdown", "Revenue") :
       \E pie3 \in PieOutcomes(data, "Vendor Costs", "TotalCost") :
       \E countries \in SortsOf(data, "Country Breakdown", "Revenue") :
       \E carriers \in SortsOf(data, "Carrier Breakdown", "Revenue") :
          LET r == Visualize(data, outputDir, pie2, pie3, countries, carriers)
          IN /\ last' = Called("create_visualizations", r)
             /\ files' = files \cup r.written
             /\ pc' = NextPc("viz", r.status = "ok")
             /\ started' = NextStarted("viz", r.status)
    /\ outputDir' = IF outputDir = "absent" THEN "dir" ELSE outputDir
    /\ vizCalls' = Min(vizCalls + 1, MaxVizCalls)
    /\ UNCHANGED <<data, loaded, outputDir0, files0, printed>>

PrintRecommendations ==
    /\ pc = "recs"
    /\ printed' = <<"KEY RECOMMENDATIONS", "Analysis completed successfully!">>
    /\ pc' = AfterStep("recs", TRUE)
    /\ started' = NextStarted("recs", "ok")
    /\ UNCHANGED <<data, loaded, outputDir, outputDir0, files, files0, last, vizCalls>>

Next ==
    \/ BeginRun
    \/ GenerateSummaryReport
    \/ AnalyzeTopClients
    \/ AnalyzeVendorEfficiency
    \/ IdentifyOptimizationOpportunities
    \/ CreateVisualizations
    \/ PrintRecommendations

----------------------------------------------------------------------------
(* Initial states: the analyzer after __init__ / load_data. *)

InitWith(d, dir, present) ==
    /\ data = d
    /\ loaded = d
    /\ outputDir = dir
    /\ outputDir0 = dir
    /\ files = present
    /\ files0 = present
    /\ pc = "idle"
    /\ started = <<>>
    /\ printed = <<>>
    /\ last = Called("none", [status |-> "none"])
    /\ vizCalls = 0

(* The output path: absent, absent with no parent directory, a regular     *)
(* file, or a directory that may already hold files.                       *)
OutputStates ==
    {<<"absent", {}>>, <<"noparent", {}>>, <<"file", {}>>}
    \cup {<<"dir", f>> : f \in SUBSET {"notes.txt", PngNames[1]}}

(* Any subset of the tables may be in the workbook. *)
Init ==
    \E names \in SUBSET TableNames : \E out \in OutputStates :
        InitWith([t \in names |-> DefaultData[t]], out[1], out[2])

Spec == Init /\ [][Next]_vars

(* Summary tables: each report metric occurs 0..MaxDup times. *)
MaxDup == 2

MetricRows(i, count) ==
    [j \in 1..count |->
        [Metric |-> ReportMetrics[i], Value |-> DefaultSummary[i].Value + (j - 1)]]

RECURSIVE SummaryRows(_, _)
SummaryRows(mult, i) ==
    IF i = 0 THEN <<>> ELSE SummaryRows(mult, i - 1) \o MetricRows(i, mult[i])

SummaryTables ==
    {SummaryRows(mult, Len(ReportMetrics)) :
        mult \in [1..Len(ReportMetrics) -> 0..MaxDup]}

InitSummary ==
    \E t \in SummaryTables : InitWith(WithTable("Summary", t), "absent", {})

SpecSummary == InitSummary /\ [][Next]_vars

(* Client Breakdown tables: up to MaxClients rows, Revenue in 1..MaxRevenue. *)
ClientRows(revs) ==
    [i \in 1..Len(revs) |->
        [Customer |-> i, Revenue |-> revs[i], GM |-> Threshold, Calls |-> i]]

ClientTables ==
    UNION {{ClientRows(revs) : revs \in [1..k -> 1..MaxRevenue]} : k \in 0..MaxClients}

InitClients ==
    \E t \in ClientTables : InitWith(WithTable("Client Breakdown", t), "absent", {})

SpecClients == InitClients /\ [][Next]_vars

(* Vendor Costs tables: 1..MaxVendors rows, Total Cost in 0..MaxCost. *)
VendorRows(costs) ==
    [i \in 1..Len(costs) |-> [Vendor |-> i, TotalCost |-> costs[i]]]

VendorTables ==
    UNION {{VendorRows(costs) : costs \in [1..k -> 0..MaxCost]} : k \in 1..MaxVendors}

InitVendors ==
    \E t \in VendorTables : InitWith(WithTable("Vendor Costs", t), "absent", {})

SpecVendors == InitVendors /\ [][Next]_vars

(* Margins around the threshold, in the report tables and in the charts. *)
Margins == (Threshold - MarginSpread)..(Threshold + MarginSpread)

WithMargins(t, gms) == [i \in 1..Len(t) |-> [t[i] EXCEPT !.GM = gms[i]]]

MarginData(low, chart) ==
    [t \in TableNames |->
        CASE t \in {"Low Margin Clients", "Low Margin Countries"} ->
                WithMargins(DefaultData[t], low)
          [] t \in {"Country Breakdown", "Carrier Breakdown"} ->
                WithMargins(DefaultData[t], chart)
          [] OTHER -> DefaultData[t]]

InitMargins ==
    \E low \in [1..2 -> Margins] : \E chart \in [1..2 -> Margins] :
        InitWith(MarginData(low, chart), "absent", {})

SpecMargins == InitMargins /\ [][Next]_vars

----------------------------------------------------------------------------
(* Properties. *)

CalledOk(op) == last.op = op /\ last.out.status = "ok"

CalledFailed(op) == last.op = op /\ last.out.status # "ok"

(* The tables figure k reads. *)
TablesOf(k) ==
    CASE k = 1 -> {"Summary", "Client Breakdown"}
      [] k = 2 -> {"Country Breakdown"}
      [] k = 3 -> {"Vendor Costs"}
      [] OTHER -> {"Carrier Breakdown"}

(* Figure k can be drawn whatever the library version: its tables are      *)
(* loaded, the Summary holds both margin metrics, a pie has a non-zero sum. *)
Drawable(k) ==
    /\ TablesOf(k) \subseteq DOMAIN data
    /\ k = 1 => \A m \in {"Gross Margin % (Current)", "Gross Margin % (After Increase)"} :
                    \E i \in 1..Len(data["Summary"]) : data["Summary"][i].Metric = m
    /\ k = 2 => SumSeq(Column(data["Country Breakdown"], "Revenue")) # 0
    /\ k = 3 => SumSeq(Column(data["Vendor Costs"], "TotalCost")) # 0

(* C1, as claimed: a create_visualizations call that completes leaves the  *)
(* output directory in place and has written exactly five PNG files.       *)
C1_FiveFilesWritten ==
    CalledOk("create_visualizations") =>
        /\ outputDir = "dir"
        /\ Cardinality(last.out.written) = 5

(* C1, amended: a create_visualizations call that completes leaves the     *)
(* output directory in place (created if it was absent) and has written    *)
(* exactly four distinctly named PNG files, 01_ to 04_; the directory then *)
(* holds those four and what it held before, after a first call and after  *)
(* a repeated one alike.                                                   *)
C1_FourFilesWritten ==
    CalledOk("create_visualizations") =>
        /\ outputDir = "dir"
        /\ outputDir0 \in {"absent", "dir"}
        /\ Cardinality(last.out.written) = 4
        /\ last.out.written =
              {"01_revenue_margin_analysis.png", "02_country_performance.png",
               "03_vendor_costs.png", "04_carrier_analysis.png"}
        /\ files = files0 \cup last.out.written

C1_Witness ==
    /\ CalledOk("create_visualizations")
    /\ vizCalls = 2
    /\ outputDir0 = "absent"
    /\ pc = "idle"

(* C2, as claimed: a create_visualizations call that ends in an error has  *)
(* written no image file.                                                  *)
C2_NothingWrittenOnError ==
    CalledFailed("create_visualizations") => last.out.written = {}

(* C2, amended: a create_visualizations call that ends in an error has     *)
(* written, and left in the output directory, the files of the figures     *)
(* saved before the failing one: a proper prefix of the four file names in *)
(* their order, holding at least every figure up to the first one that     *)
(* cannot be drawn, and only figures whose tables are loaded.  It is empty *)
(* when mkdir or the first figure fails; without any call no file is       *)
(* written at all.                                                         *)
C2_PrefixWrittenOnError ==
    /\ vizCalls = 0 => files = files0
    /\ CalledFailed("create_visualizations") =>
        LET w == last.out.written
        IN /\ w \subseteq files
           /\ \E k \in 1..Len(PngNames) : PngNames[k] \notin w
           /\ \A k \in 1..Len(PngNames) :
                 /\ PngNames[k] \in w =>
                       /\ outputDir0 \in {"absent", "dir"}
                       /\ \A j \in 1..k :
                             PngNames[j] \in w /\ TablesOf(j) \subseteq DOMAIN data
                 /\ (outputDir0 \in {"absent", "dir"} /\ \A j \in 1..k : Drawable(j))
                       => PngNames[k] \in w

C2_Witness ==
    /\ CalledFailed("create_visualizations")
    /\ pc = "failed"
    /\ "Carrier Breakdown" \notin DOMAIN data
    /\ Cardinality(last.out.written) = 3

(* C8: run_full_analysis starts its steps in the order summary, clients,   *)
(* vendors, optimization, visualizations, recommendations; every step      *)
(* before the one started last has completed without error, so a failed    *)
(* step is the last one started; after a failure nothing is printed by the *)
(* closing block, and the closing block is printed only after all five     *)
(* calls completed.                                                        *)
C8_FixedOrderAbortOnError ==
    LET order == <<"summary", "clients", "vendors", "optim", "viz", "recs">>
    IN /\ Len(started) <= Len(order)
       /\ \A i \in 1..Len(started) : started[i].step = order[i]
       /\ \A i \in 1..(Len(started) - 1) : started[i].status = "ok"
       /\ pc = "failed" =>
             /\ started # <<>>
             /\ started[Len(started)].status # "ok"
             /\ printed = <<>>
       /\ pc \notin {"idle", "failed", "done"} =>
             /\ \A i \in 1..Len(started) : started[i].status = "ok"
             /\ pc = order[Len(started) + 1]
       /\ printed # <<>> =>
             /\ pc = "done"
             /\ Len(started) = Len(order)
             /\ \A i \in 1..Len(started) : started[i].status = "ok"

C8_Witness ==
    /\ pc = "failed"
    /\ Len(started) = 5
    /\ started[5].step = "viz"
    /\ started[5].status = "KeyError"

(* C9: self.data never changes: after any calls, failed or not, it holds   *)
(* the tables load_data put there, each with the same rows in the same     *)
(* order.                                                                  *)
C9_DataNeverMutated ==
    /\ DOMAIN data = DOMAIN loaded
    /\ \A t \in DOMAIN loaded : data[t] = loaded[t]

C9_Witness ==
    /\ CalledOk("analyze_top_clients")
    /\ vizCalls > 0
    /\ Len(last.out.ret) = 3
    /\ last.out.ret # loaded["Client Breakdown"]

----------------------------------------------------------------------------
(* Properties of generate_summary_report (SpecSummary). *)

Occurrences(metric) ==
    Cardinality({i \in 1..Len(data["Summary"]) : data["Summary"][i].Metric = metric})

TheMetrics == {ReportMetrics[i] : i \in 1..Len(ReportMetrics)}

(* The Value of the first row whose Metric is metric. *)
FirstRowValue(metric) ==
    LET rows == data["Summary"]
        i == CHOOSE k \in 1..Len(rows) :
                /\ rows[k].Metric = metric
                /\ \A j \in 1..(k - 1) : rows[j].Metric # metric
    IN rows[i].Value

(* C3, as claimed: when one of the five metrics occurs zero times or more  *)
(* than once in Summary, generate_summary_report ends in an error and      *)
(* returns nothing.                                                        *)
C3_FailsUnlessExactlyOne ==
    (last.op = "generate_summary_report"
        /\ \E m \in TheMetrics : Occurrences(m) # 1)
    => (last.out.status # "ok" /\ last.out.ret = <<>>)

(* C3, amended: generate_summary_report ends in an error, returning        *)
(* nothing, exactly when one of the five metrics occurs zero times in      *)
(* Summary; a metric that occurs more than once is no error, the Value of  *)
(* its first row is used.                                                  *)
C3_FailsOnlyWhenAbsent ==
    last.op = "generate_summary_report" =>
        IF \E m \in TheMetrics : Occurrences(m) = 0
        THEN last.out.status = "IndexError" /\ last.out.ret = <<>>
        ELSE /\ last.out.status = "ok"
             /\ last.out.ret = << FirstRowValue("Total Revenue"),
                                  FirstRowValue("Gross Margin % (Current)"),
                                  FirstRowValue("Gross Margin % (After Increase)") >>

C3_Witness ==
    /\ CalledOk("generate_summary_report")
    /\ Occurrences("Total Revenue") = 2
    /\ Occurrences("Gross Margin % (Current)") = 2
    /\ last.out.ret[1] = 1000

----------------------------------------------------------------------------
(* Properties of analyze_top_clients (SpecClients). *)

Clients == loaded["Client Breakdown"]

(* Where a returned row stands in the loaded table (its rows differ). *)
LoadedAt(row) == CHOOSE i \in 1..Len(Clients) : Clients[i] = row

Returned == {last.out.ret[i] : i \in 1..Len(last.out.ret)}

LeftOut == {Clients[i] : i \in 1..Len(Clients)} \ Returned

(* The rows are rows of the table, none twice, by Revenue non-increasing,  *)
(* and no row left out has a greater Revenue than a returned one.          *)
IsTopSelection(ret) ==
    /\ \A i \in 1..Len(ret) : \E k \in 1..Len(Clients) : Clients[k] = ret[i]
    /\ \A i, j \in 1..Len(ret) : ret[i] = ret[j] => i = j
    /\ \A i, j \in 1..Len(ret) : i < j => ret[i].Revenue >= ret[j].Revenue
    /\ \A out \in LeftOut : \A i \in 1..Len(ret) : out.Revenue <= ret[i].Revenue

(* C4, as claimed: for every integer N the call returns min(N, rows) rows, *)
(* sorted by Revenue non-increasing, no row left out being greater.        *)
C4_TopNForEveryInteger ==
    CalledOk("analyze_top_clients") =>
        /\ Len(last.out.ret) = Min(last.out.n, Len(Clients))
        /\ IsTopSelection(last.out.ret)

(* C4, amended: for every N >= 0 the call returns min(N, rows) rows,       *)
(* sorted by Revenue non-increasing, no row left out being greater than a  *)
(* returned one, whatever the order of the loaded rows; for N < 0 it       *)
(* returns the sorted rows but the last -N.                                *)
C4_TopNForNonNegative ==
    CalledOk("analyze_top_clients") =>
        /\ last.out.n >= 0 => Len(last.out.ret) = Min(last.out.n, Len(Clients))
        /\ last.out.n < 0 => Len(last.out.ret) = Max(0, Len(Clients) + last.out.n)
        /\ IsTopSelection(last.out.ret)

C4_Witness ==
    /\ CalledOk("analyze_top_clients")
    /\ last.out.n = 2
    /\ Len(Clients) = 3
    /\ Clients[1].Revenue < Clients[3].Revenue
    /\ Len(last.out.ret) = 2

(* C5, as claimed: rows of equal Revenue keep the order they were loaded   *)
(* in, and of two such rows of which one is returned and one is not, the   *)
(* returned one was loaded first.                                          *)
C5_TiesKeepLoadedOrder ==
    (CalledOk("analyze_top_clients") /\ last.out.n >= 0) =>
        LET ret == last.out.ret
        IN /\ \A i, j \in 1..Len(ret) :
                 (i < j /\ ret[i].Revenue = ret[j].Revenue)
                    => LoadedAt(ret[i]) < LoadedAt(ret[j])
           /\ \A in \in Returned : \A out \in LeftOut :
                 in.Revenue = out.Revenue => LoadedAt(in) < LoadedAt(out)

(* The Revenue column of the stable selection: each returned position      *)
(* holds the Revenue that stands there when the loaded rows are ranked by  *)
(* Revenue, greatest first.                                                *)
RankedRevenue(k) ==
    CHOOSE r \in {Clients[i].Revenue : i \in 1..Len(Clients)} :
        /\ Cardinality({i \in 1..Len(Clients) : Clients[i].Revenue > r}) < k
        /\ Cardinality({i \in 1..Len(Clients) : Clients[i].Revenue >= r}) >= k

(* C5, amended: rows of equal Revenue are returned in no fixed order (the  *)
(* sort is pandas' default, which is not stable), and which of the rows    *)
(* tied at the cut is returned is not fixed either; fixed are the Revenue  *)
(* values returned: position k holds the k-th greatest Revenue of the      *)
(* table, and N >= 0 gives min(N, rows) positions.                         *)
C5_TiesInNoFixedOrder ==
    (CalledOk("analyze_top_clients") /\ last.out.n >= 0) =>
        /\ Len(last.out.ret) = Min(last.out.n, Len(Clients))
        /\ \A k \in 1..Len(last.out.ret) :
              last.out.ret[k].Revenue = RankedRevenue(k)

C5_Witness ==
    /\ CalledOk("analyze_top_clients")
    /\ last.out.n = 2
    /\ Len(last.out.ret) = 2
    /\ last.out.ret[1].Revenue = last.out.ret[2].Revenue
    /\ LoadedAt(last.out.ret[1]) > LoadedAt(last.out.ret[2])
    /\ \E out \in LeftOut : out.Revenue = last.out.ret[1].Revenue

----------------------------------------------------------------------------
(* Properties of identify_optimization_opportunities (SpecMargins). *)

(* The lines printed for table t are its rows below 35%, in table order:   *)
(* a row has a line exactly when its GM% is under 35, and the lines follow *)
(* the rows' order.                                                        *)
PrintsRowsBelow35(lines, t) ==
    /\ \A i \in 1..Len(t) :
          (\E k \in 1..Len(lines) : lines[k] = t[i]) <=> t[i].GM < 35
    /\ \A k \in 1..Len(lines) : \E i \in 1..Len(t) : lines[k] = t[i]
    /\ \A k, m \in 1..Len(lines) :
          k < m => (CHOOSE i \in 1..Len(t) : t[i] = lines[k])
                     < (CHOOSE i \in 1..Len(t) : t[i] = lines[m])

(* C6: the optimization report prints a line for a row of Low Margin       *)
(* Clients or Low Margin Countries exactly when the row's GM% is strictly  *)
(* below 0.35 (a row at 0.35 is not printed), in table order.              *)
C6_PrintsStrictlyBelowThreshold ==
    CalledOk("identify_optimization_opportunities") =>
        /\ PrintsRowsBelow35(last.out.clients, data["Low Margin Clients"])
        /\ PrintsRowsBelow35(last.out.countries, data["Low Margin Countries"])

C6_Witness ==
    /\ CalledOk("identify_optimization_opportunities")
    /\ data["Low Margin Clients"][1].GM = 35
    /\ data["Low Margin Clients"][2].GM = 34
    /\ Len(last.out.clients) = 1
    /\ data["Low Margin Countries"][1].GM = 35
    /\ last.out.countries = <<data["Low Margin Countries"][2]>>

(* C10, as claimed: in both margin charts a bar has the below-threshold    *)
(* colour #FF6B6B exactly when the report filter would print its margin,   *)
(* that is exactly when GM% < 0.35, a margin of 0.35 included.             *)
C10_OneThresholdEverywhere ==
    CalledOk("create_visualizations") =>
        /\ \A i \in 1..Len(last.out.countryBars) :
              (last.out.countryBars[i].color = "#FF6B6B")
                 <=> last.out.countryBars[i].GM < 35
        /\ \A i \in 1..Len(last.out.carrierBars) :
              (last.out.carrierBars[i].color = "#FF6B6B")
                 <=> last.out.carrierBars[i].GM < 35

----------------------------------------------------------------------------
(* Properties of analyze_vendor_efficiency (SpecVendors). *)

Vendors == data["Vendor Costs"]

GrandTotal == SumSeq([i \in 1..Len(Vendors) |-> Vendors[i].TotalCost])

(* The shares are numbers and add up to 100%, within one unit of the share *)
(* resolution per vendor.                                                  *)
SharesSumTo100(shares) ==
    /\ \A i \in 1..Len(shares) : shares[i].number
    /\ LET sum == SumSeq([i \in 1..Len(shares) |-> shares[i].pct])
       IN /\ sum <= 100 * ShareScale
          /\ sum > 100 * ShareScale - Len(shares)

(* C7, as claimed: for any non-empty Vendor Costs table, one whose costs   *)
(* sum to zero included, the shares sum to 100%.                           *)
C7_SharesSumTo100Always ==
    (CalledOk("analyze_vendor_efficiency") /\ Len(Vendors) > 0) =>
        /\ Len(last.out.shares) = Len(Vendors)
        /\ SharesSumTo100(last.out.shares)

(* C7, amended: for any non-empty Vendor Costs table whose costs do not    *)
(* sum to zero, the shares, one per vendor, sum to 100% (within            *)
(* tolerance); when the costs sum to zero no share is a number (the        *)
(* division by the zero total gives nan), and no error is raised.          *)
C7_SharesSumTo100UnlessZeroTotal ==
    (last.op = "analyze_vendor_efficiency" /\ Len(Vendors) > 0) =>
        /\ last.out.status = "ok"
        /\ Len(last.out.shares) = Len(Vendors)
        /\ IF GrandTotal # 0
           THEN SharesSumTo100(last.out.shares)
           ELSE \A i \in 1..Len(Vendors) : ~last.out.shares[i].number

C7_Witness ==
    /\ CalledOk("analyze_vendor_efficiency")
    /\ Len(Vendors) = 3
    /\ GrandTotal = 3
    /\ \A i \in 1..3 : Vendors[i].TotalCost = 1
    /\ SumSeq([i \in 1..3 |-> last.out.shares[i].pct]) < 100 * ShareScale

====
